---------------------------- MODULE Spec2Model ----------------------------
(* A model of prgtest (src/.introprg/prgtest.py): the line comparator      *)
(* Prgtest.compare_lines with show_difference, the translation of          *)
(* prepare_output, and the run from check_nontestable on, in both modes    *)
(* (check_compiled, check_git, prepare_test, perform_io_tests,             *)
(* run_io_tests, run_java, compare_io_result, perform_junit_tests).        *)
(*                                                                         *)
(* A line is a sequence of one-character strings; the empty line '' is the *)
(* empty sequence.  Python's None is the empty tuple where the other       *)
(* values of the same place are non-empty tuples, and a tagged record      *)
(* where they are not.                                                     *)
EXTENDS Integers, Sequences, FiniteSets, TLC

VARIABLES
    specs,      \* self.specs: the loaded specs, a list of (key, value) items
    pc,         \* where Prgtest.run stands
    idx,        \* perform_io_tests: the item of specs the loop is at (from 1)
    child,      \* what the last child process started by run_java did
    result,     \* the SubprocessResult run_java returned for it
    out,        \* what the run has called and printed so far, in order
    exitcode,   \* <<>> while the process runs, <<code>> once it has exited
    protected,  \* Prgtest.protected(): INTROPRG_UNPROTECTED is not set
    cwd,        \* the current working directory of the process
    repo,       \* check_git: what it found in the repository, while it runs
    classes,    \* the *.class files in the test folder, by what compiled them
    args,       \* harness: the arguments of the pure function under check
    ret,        \* harness: what the function returned
    called,     \* harness: whether the function has been applied
    via,        \* harness: the return statement compare_lines left through
    shown       \* harness: what show_difference printed for ret

runvars == <<specs, pc, idx, child, result, out, exitcode, protected, cwd, repo,
            classes>>
harnessvars == <<args, ret, called, via, shown>>
vars == <<specs, pc, idx, child, result, out, exitcode, protected, cwd, repo,
          classes,
          args, ret, called, via, shown>>

--------------------------------------------------------------------------
(* Bounds and input alphabets                                              *)

\* longest list of lines handed to compare_lines by the harness
MaxLines == 3

\* the empty line ''
Blank == <<>>

\* the lines the harness draws from: the empty line and two distinct ones
Lines == {Blank, <<"a">>, <<"b">>}

\* all lists of at most n elements of S
SeqsUpTo(S, n) == UNION {[1..k -> S] : k \in 0..n}

LineLists == SeqsUpTo(Lines, MaxLines)

--------------------------------------------------------------------------
(* Prgtest.compare_lines                                                   *)

\* Python's None as returned by compare_lines (a pair otherwise)
None == <<>>

SkipExpectedAlways(line_expected, ignore_blank_lines) ==
    line_expected = Blank

\* `line_expected == '' and ignore_blank_lines`
SkipExpected(line_expected, ignore_blank_lines) ==
    line_expected = Blank /\ ignore_blank_lines

SkipFoundNever(line_found, ignore_blank_lines) ==
    FALSE

\* `line_found == '' and ignore_blank_lines`
SkipFound(line_found, ignore_blank_lines) ==
    line_found = Blank /\ ignore_blank_lines

ExpectedTailAtCursor(expected, ignore_blank_lines, nr_expected) ==
    IF nr_expected < Len(expected)
    THEN [at |-> "expected_tail", val |-> <<nr_expected, nr_expected>>]
    ELSE [at |-> "end", val |-> None]

RECURSIVE ExpectedTail(_, _, _)
\* the third loop: the lines of expected left when found is used up
ExpectedTail(expected, ignore_blank_lines, nr_expected) ==
    IF nr_expected < Len(expected)
    THEN IF SkipExpected(expected[nr_expected + 1], ignore_blank_lines)
         THEN ExpectedTail(expected, ignore_blank_lines, nr_expected + 1)
         ELSE [at |-> "expected_tail", val |-> <<nr_expected, nr_expected>>]
    ELSE [at |-> "end", val |-> None]

RECURSIVE FoundTail(_, _, _, _, _)
\* the second loop: the lines of found left when the main loop ends
FoundTail(expected, found, ignore_blank_lines, nr_expected, nr_found) ==
    IF nr_found < Len(found)
    THEN IF SkipFound(found[nr_found + 1], ignore_blank_lines)
         THEN FoundTail(expected, found, ignore_blank_lines,
                        nr_expected, nr_found + 1)
         ELSE [at |-> "found_tail", val |-> <<nr_found, nr_found>>]
    ELSE ExpectedTail(expected, ignore_blank_lines, nr_expected)

RECURSIVE MainLoop(_, _, _, _, _)
\* the first loop: both cursors within bounds (cursors count from 0)
MainLoop(expected, found, ignore_blank_lines, nr_expected, nr_found) ==
    IF nr_expected < Len(expected) /\ nr_found < Len(found)
    THEN LET line_expected == expected[nr_expected + 1]
             line_found == found[nr_found + 1]
         IN  IF SkipExpected(line_expected, ignore_blank_lines)
             THEN MainLoop(expected, found, ignore_blank_lines,
                           nr_expected + 1, nr_found)
             ELSE IF SkipFound(line_found, ignore_blank_lines)
             THEN MainLoop(expected, found, ignore_blank_lines,
                           nr_expected, nr_found + 1)
             ELSE IF line_expected # line_found
             THEN [at |-> "loop", val |-> <<nr_expected, nr_found>>]
             ELSE MainLoop(expected, found, ignore_blank_lines,
                           nr_expected + 1, nr_found + 1)
    ELSE FoundTail(expected, found, ignore_blank_lines, nr_expected, nr_found)

\* compare_lines, with the place it returned from
compare_lines_at(expected, found, ignore_blank_lines) ==
    MainLoop(expected, found, ignore_blank_lines, 0, 0)

\* compare_lines: None, or the pair (line_expected, line_found)
compare_lines(expected, found, ignore_blank_lines) ==
    compare_lines_at(expected, found, ignore_blank_lines).val

--------------------------------------------------------------------------
(* The specs file: a mapping kept in declaration order                     *)

\* most test cases a specs file of the model declares
MaxTests == 2

\* most items (metadata keys and test cases) of a specs file of the model
MaxItems == 3

\* Python values as loaded from YAML, tagged with their type
PyNone == [t |-> "none", v |-> <<>>]
PyStr(s) == [t |-> "str", v |-> s]
PyBool(b) == [t |-> "bool", v |-> <<b>>]
PyList(l) == [t |-> "list", v |-> l]
PyDict(d) == [t |-> "dict", v |-> d]

\* the metadata keys the run reads
K_mainclass == <<"_", "m", "a", "i", "n", "c", "l", "a", "s", "s">>
K_tr == <<"_", "t", "r">>
K_ignore_blank_lines == <<"_", "i", "g", "n", "o", "r", "e", "_", "b", "l",
                          "a", "n", "k", "_", "l", "i", "n", "e", "s">>

Digits == <<"1", "2", "3", "4", "5", "6", "7", "8", "9">>

\* the test ids of the model: t1, t2, ...
TestIds == {<<"t", Digits[n]>> : n \in 1..MaxTests}

\* the values of _tr the model draws from: three ill-defined ones (not a
\* pair, an empty first element, elements of unequal length) and one that
\* turns every b into an a
TrChoices == {
    <<(<<"b">>)>>,
    <<(<<>>), (<<>>)>>,
    <<(<<"b">>), (<<"a", "a">>)>>,
    <<(<<"b">>), (<<"a">>)>> }

\* the expected outputs a test case may declare: none, one line given as a
\* scalar, or a list of lines
ExpectedChoices == {
    PyNone,
    PyStr(<<"a">>),
    PyList(<<(<<"a">>), Blank, (<<"b">>)>>) }

\* what a child may have written to its standard output
StdoutChoices == {
    <<>>,
    <<(<<"a">>)>>,
    <<(<<"b">>)>>,
    <<(<<"a">>), (<<"b">>)>> }

\* what a failing child may have written to its standard error
StderrChoices == { <<(<<"e">>)>>, <<(<<"e">>), (<<"a">>)>> }

MetaItems ==
    {[key |-> K_mainclass, val |-> PyStr(<<"M">>)]}
    \cup {[key |-> K_tr, val |-> PyList(tr)] : tr \in TrChoices}
    \cup {[key |-> K_ignore_blank_lines, val |-> PyBool(b)] : b \in BOOLEAN}

TestItems ==
    {[key |-> id, val |-> PyDict([stdout |-> e])] :
        id \in TestIds, e \in ExpectedChoices}

\* a mapping has no key twice
DistinctKeys(items) ==
    \A m, n \in 1..Len(items) : items[m].key = items[n].key => m = n

SpecsFiles ==
    {items \in SeqsUpTo(MetaItems \cup TestItems, MaxItems) :
        DistinctKeys(items)}

\* dict.get(key, default) on a list of items
Get(items, key, default) ==
    IF \E n \in 1..Len(items) : items[n].key = key
    THEN items[CHOOSE n \in 1..Len(items) : items[n].key = key].val
    ELSE default

\* str.startswith
startswith(s, prefix) ==
    /\ Len(s) >= Len(prefix)
    /\ SubSeq(s, 1, Len(prefix)) = prefix

IsMetadataNever(testid) == FALSE

\* `testid.startswith('_')`
IsMetadata(testid) == startswith(testid, <<"_">>)

--------------------------------------------------------------------------
(* run_java and the child process                                          *)

\* the return code run_java gives a child that did not finish in time
TIMEOUT_RETURNCODE == 124

\* the exit codes a child that finishes may return
ExitCodes == {0, 1, TIMEOUT_RETURNCODE}

\* what a child does: it is killed at the timeout, having written some
\* output, or it finishes by itself with a return code, having written to
\* its standard output or, when the code is not 0, to its standard error
ChildBehaviours ==
    [timed_out : {TRUE}, stdout : StdoutChoices, stderr : {<<>>},
     returncode : {0}]
    \cup [timed_out : {FALSE}, stdout : StdoutChoices,
          stderr : {<<>>}, returncode : ExitCodes]
    \cup [timed_out : {FALSE}, stdout : {<<>>},
          stderr : StderrChoices, returncode : ExitCodes \ {0}]

SubprocessResult(stdout, stderr, returncode) ==
    [stdout |-> stdout, stderr |-> stderr, returncode |-> returncode]

NoResult == SubprocessResult(<<>>, <<>>, 0)
NoChild == [timed_out |-> FALSE, stdout |-> <<>>, stderr |-> <<>>,
            returncode |-> 0]

run_java_partial(c) ==
    IF c.timed_out
    THEN SubprocessResult(c.stdout, c.stderr, TIMEOUT_RETURNCODE)
    ELSE SubprocessResult(c.stdout, c.stderr, c.returncode)

\* run_java: run_command's result, or the sentinel when subprocess.run
\* raised TimeoutExpired
run_java(c) ==
    IF c.timed_out
    THEN SubprocessResult(<<>>, <<>>, TIMEOUT_RETURNCODE)
    ELSE SubprocessResult(c.stdout, c.stderr, c.returncode)

--------------------------------------------------------------------------
(* Prgtest.compare_io_result                                               *)

\* one call or one message of the run: what, for which test, with what
Ev(ev, id, data) == [ev |-> ev, id |-> id, data |-> data]

RECURSIVE replace_first(_, _, _)
replace_first(line, chsrc, new) ==
    IF line = <<>> THEN <<>>
    ELSE IF Head(line) = chsrc THEN new \o Tail(line)
    ELSE <<Head(line)>> \o replace_first(Tail(line), chsrc, new)

RECURSIVE replace(_, _, _)
\* str.replace(chsrc, new) for a one-character chsrc: every occurrence of
\* chsrc gives way to new, the other characters stay.  The line is split in
\* halves, which keeps the evaluation shallow on the long lines a table
\* that produces its own characters makes.
replace(line, chsrc, new) ==
    IF line = <<>> THEN <<>>
    ELSE IF Len(line) = 1 THEN (IF line[1] = chsrc THEN new ELSE line)
    ELSE replace(SubSeq(line, 1, Len(line) \div 2), chsrc, new)
         \o replace(SubSeq(line, Len(line) \div 2 + 1, Len(line)), chsrc, new)

RECURSIVE Translate(_, _, _)
\* `for chsrc in translatespecs[0]: output = [line.replace(...) ...]`
Translate(output, from_chars, new) ==
    IF from_chars = <<>> THEN output
    ELSE Translate([n \in 1..Len(output) |->
                        replace(output[n], Head(from_chars), new)],
                   Tail(from_chars), new)

IllDefinedTrOnlyPair(translatespecs) ==
    Len(translatespecs) # 2

\* the three tests of prepare_output that raise AttributeError
IllDefinedTr(translatespecs) ==
    \/ Len(translatespecs) # 2
    \/ translatespecs[1] = <<>>
    \/ Len(translatespecs[1]) # Len(translatespecs[2])

\* prepare_output: the output with the translations applied, if any
prepare_output(s, output) ==
    LET translatespecs == Get(s, K_tr, PyNone)
    IN  IF translatespecs.t = "none"
        THEN [raised |-> FALSE, output |-> output]
        ELSE IF IllDefinedTr(translatespecs.v)
        THEN [raised |-> TRUE, output |-> output]
        ELSE [raised |-> FALSE,
              output |-> Translate(output, translatespecs.v[1],
                                   translatespecs.v[2])]

\* normalize_entry_spec: None and lists as they are, a scalar in a list
normalize_entry_spec(entry) ==
    IF entry.t = "none" \/ entry.t = "list" THEN entry
    ELSE PyList(<<entry.v>>)

\* the place of a key in the specs
ItemOf(s, key) == CHOOSE n \in 1..Len(s) : s[n].key = key

\* normalize_expected_output: specs[testid]['stdout'] normalized in place
normalize_expected_output(s, testid) ==
    LET n == ItemOf(s, testid)
    IN  [s EXCEPT ![n].val.v.stdout = normalize_entry_spec(@)]

ExpectedAbsentNever(expected) == FALSE

\* `expected is None`
ExpectedAbsent(expected) == expected.t = "none"

\* specs.get('_ignore_blank_lines', True), as compare_lines reads it
ignore_blank_lines_of(s) ==
    Get(s, K_ignore_blank_lines, PyBool(TRUE)).v[1]

\* compare_output: None without a comparison when no output is expected,
\* else what compare_lines says of the prepared output
compare_output(s, testid, stdout) ==
    LET expected == Get(s, testid, PyNone).v.stdout
    IN  IF ExpectedAbsent(expected)
        THEN [raised |-> FALSE, log |-> <<>>, val |-> None]
        ELSE LET prepared == prepare_output(s, stdout)
             IN  IF prepared.raised
                 THEN [raised |-> TRUE, log |-> <<>>, val |-> None]
                 ELSE LET r == compare_lines(expected.v, prepared.output,
                                             ignore_blank_lines_of(s))
                      IN  [raised |-> FALSE,
                           log |-> <<Ev("compare_lines", testid, r)>>,
                           val |-> r]

show_difference_both(expected, stdout, nr_expected, nr_found) ==
    [msg |-> "MSG_EXERCISE_WITH_DIFFERENT_LINES",
     lines |-> << [of |-> "expected", nr |-> nr_expected],
                  [of |-> "found", nr |-> nr_found] >>]

\* show_difference: the message it prints and the lines it prints under it,
\* each as the list it is taken from and the 0-based index used
show_difference(expected, stdout, nr_expected, nr_found) ==
    IF nr_expected >= Len(expected)
    THEN [msg |-> "MSG_EXERCISE_WITH_MORE_LINES_THAN_EXPECTED",
          lines |-> << [of |-> "found", nr |-> nr_found] >>]
    ELSE IF nr_found >= Len(stdout)
    THEN [msg |-> "MSG_EXERCISE_WITH_LESS_LINES_THAN_EXPECTED",
          lines |-> << [of |-> "expected", nr |-> nr_expected] >>]
    ELSE [msg |-> "MSG_EXERCISE_WITH_DIFFERENT_LINES",
          lines |-> << [of |-> "expected", nr |-> nr_expected],
                       [of |-> "found", nr |-> nr_found] >>]

\* show_discrepancy: the pair it is called with, the listing of the found
\* output (show_found_output) and what show_difference prints, each line
\* with its text; expected is self.specs[testid]['stdout']
show_discrepancy(s, testid, nr_expected, nr_found, stdout) ==
    LET expected == Get(s, testid, PyNone).v.stdout.v
        d == show_difference(expected, stdout, nr_expected, nr_found)
        printed == [n \in 1..Len(d.lines) |->
                       [of |-> d.lines[n].of, nr |-> d.lines[n].nr,
                        text |-> IF d.lines[n].of = "expected"
                                 THEN expected[d.lines[n].nr + 1]
                                 ELSE stdout[d.lines[n].nr + 1]]]
    IN  << Ev("show_discrepancy", testid, <<nr_expected, nr_found>>),
           Ev("show_found_output", testid, stdout),
           Ev("show_difference", testid, [msg |-> d.msg, lines |-> printed]) >>

\* the part of compare_io_result every failing case starts with
ShowFailed(testid) ==
    << Ev("show_test_failed", testid, <<>>),
       Ev("show_program_execution", testid, <<>>),
       Ev("show_provided_stdin", testid, <<>>) >>

IsTimeoutNever(returncode) == FALSE

\* `test_result.returncode == 124`
IsTimeout(returncode) == returncode = TIMEOUT_RETURNCODE

FailureKeepsGoing == FALSE

\* every failing branch of compare_io_result ends in sys.exit(1), by
\* print_error_and_exit or by the last line
FailureExits == TRUE

\* compare_io_result: what it calls and prints, whether an exception leaves
\* it, whether it exits the process, and the specs as it leaves them
compare_io_result(s, testid, test_result) ==
    IF test_result.returncode = 0
    THEN LET s1 == normalize_expected_output(s, testid)
             c == compare_output(s1, testid, test_result.stdout)
         IN  IF c.raised
             THEN [specs |-> s1, log |-> <<>>, raised |-> TRUE,
                   exits |-> FALSE]
             ELSE IF c.val = None
             THEN [specs |-> s1,
                   log |-> c.log \o <<Ev("show_test_passed", testid, <<>>)>>,
                   raised |-> FALSE, exits |-> FALSE]
             ELSE [specs |-> s1,
                   log |-> c.log \o ShowFailed(testid)
                           \o show_discrepancy(s1, testid, c.val[1], c.val[2],
                                               test_result.stdout),
                   raised |-> FALSE, exits |-> FailureExits]
    ELSE IF IsTimeout(test_result.returncode)
    THEN [specs |-> s,
          log |-> ShowFailed(testid)
                  \o <<Ev("MSG_EXERCISE_NEVER_ENDS", testid, <<>>)>>,
          raised |-> FALSE, exits |-> FailureExits]
    ELSE [specs |-> s,
          log |-> ShowFailed(testid)
                  \o << Ev("show_found_stderr", testid, test_result.stderr),
                        Ev("MSG_EXERCISE_BREAKS", testid, <<>>) >>,
          raised |-> FALSE, exits |-> FailureExits]

--------------------------------------------------------------------------
(* Prgtest.run, from check_nontestable on, in protected mode and in         *)
(* unprotected mode (where check_compiled and check_git return at once and *)
(* prepare_test copies nothing)                                            *)

\* the name compare_junit_result reports the JUnit suite under
JUnit == <<"J", "U", "n", "i", "t">>

\* the folder of the exercise, where the program is started
\* (find_target_path), and the folder prepare_test copies it to
TargetDir == "target_path"
TestDir == "support_dir/tmp/test"

\* check_git is not running
NoRepo == <<>>

\* no run: the state of the run's variables while a function is checked on
\* its own
RunIdle ==
    /\ specs = <<>>
    /\ pc = "idle"
    /\ idx = 1
    /\ child = NoChild
    /\ result = NoResult
    /\ out = <<>>
    /\ exitcode = <<>>
    /\ protected = FALSE
    /\ cwd = TargetDir
    /\ repo = NoRepo
    /\ classes = {}

\* show_difference has printed nothing
NoShown == <<>>

\* no function under check: the state of the harness during a run
HarnessIdle ==
    /\ args = <<>>
    /\ ret = None
    /\ called = FALSE
    /\ via = ""
    /\ shown = NoShown

Init ==
    /\ specs \in SpecsFiles
    /\ pc = "check_nontestable"
    /\ idx = 1
    /\ child = NoChild
    /\ result = NoResult
    /\ out = <<>>
    /\ exitcode = <<>>
    /\ protected \in BOOLEAN
    /\ cwd = TargetDir
    /\ repo = NoRepo
    /\ classes = {}
    /\ HarnessIdle

\* the key of the item the loop of perform_io_tests is at
testid == specs[idx].key

\* self.test_path as prepare_test sets it
test_path == IF protected THEN TestDir ELSE TargetDir

\* the working directory run_command leaves behind: os.chdir(folder), the
\* child, os.chdir(previous_dir); subprocess.run raising TimeoutExpired
\* leaves the function before the second chdir
run_command_cwd(previous_dir, folder, timed_out) ==
    IF timed_out THEN folder ELSE previous_dir

CompileFailedNever(returncode) == FALSE

\* `result.returncode != 0` after run_javac
CompileFailed(returncode) == returncode # 0

FailureExitCodeOfChild(returncode) == returncode

\* sys.exit(1) after a failed test, whatever the child returned
FailureExitCode(returncode) == 1

\* check_nontestable: a run without specs ends at once, with code 0
CheckNontestable ==
    /\ pc = "check_nontestable"
    /\ IF specs = <<>>
       THEN /\ out' = Append(out, Ev("MSG_EXERCISE_WITHOUT_TEST", <<>>, <<>>))
            /\ pc' = "exit"
            /\ exitcode' = <<0>>
       ELSE /\ pc' = "check_compiled"
            /\ UNCHANGED <<out, exitcode>>
    /\ UNCHANGED <<specs, idx, child, result, protected, cwd, repo, classes,
                   harnessvars>>

\* check_compiled: in protected mode every .java of the target needs an
\* up-to-date .class; nothing is compiled here
CheckCompiled ==
    /\ pc = "check_compiled"
    /\ \E compiled \in BOOLEAN :
          IF protected /\ ~compiled
          THEN /\ out' = Append(out, Ev("ERROR_NOT_COMPILED", <<>>, <<>>))
               /\ pc' = "exit"
               /\ exitcode' = <<1>>
          ELSE /\ pc' = "check_git"
               /\ UNCHANGED <<out, exitcode>>
    /\ UNCHANGED <<specs, idx, child, result, protected, cwd, repo, classes,
                   harnessvars>>

\* autocommit: TRUE when the commit has been made.  do_autocommit is tried
\* when the flag is of this exercise and the last message is the expected
\* one, and a GitError in it is swallowed.
autocommit(same_exercise, expected_msg, commit_ok) ==
    same_exercise /\ expected_msg /\ commit_ok

MissingCommitNever(is_dirty, autocommittable) == FALSE

\* check_git: `repo.is_dirty()` and not `self.autocommittable()`
MissingCommit(is_dirty, autocommittable) == is_dirty /\ ~autocommittable

\* check_git: nothing in unprotected mode; otherwise untracked files of the
\* target folder, or changes that cannot be autocommitted, end the run.
\* A field of repo the code does not get to read stays FALSE.
CheckGit ==
    /\ pc = "check_git"
    /\ IF ~protected
       THEN /\ repo' = NoRepo
            /\ out' = Append(out, Ev("check_git", <<>>, <<>>))
            /\ pc' = "prepare_test"
            /\ UNCHANGED exitcode
       ELSE \E unstaged, is_dirty, autocommittable, expected_msg, commit_ok \in BOOLEAN :
              /\ unstaged => ~is_dirty
              /\ ~is_dirty => ~autocommittable
              /\ ~autocommittable => (~expected_msg /\ ~commit_ok)
              /\ ~expected_msg => ~commit_ok
              /\ repo' = [unstaged |-> unstaged, is_dirty |-> is_dirty,
                          autocommittable |-> autocommittable,
                          committed |-> autocommit(autocommittable, expected_msg,
                                                   commit_ok)]
              /\ IF unstaged
                 THEN /\ out' = Append(out, Ev("ERROR_ADD_FILES_TO_GIT", <<>>, <<>>))
                      /\ pc' = "exit"
                      /\ exitcode' = <<1>>
                 ELSE IF MissingCommit(is_dirty, autocommittable)
                 THEN /\ out' = Append(out, Ev("MSG_MISSING_COMMIT", <<>>, <<>>))
                      /\ pc' = "exit"
                      /\ exitcode' = <<1>>
                 ELSE /\ out' = Append(out, Ev("check_git", <<>>, <<>>))
                      /\ pc' = "prepare_test"
                      /\ UNCHANGED exitcode
    /\ UNCHANGED <<specs, idx, child, result, protected, cwd, classes,
                   harnessvars>>

\* what stands for the *.class files the folder of the target holds when
\* the run begins
Stale == <<"*">>

\* prepare_test: the target is copied to the test folder (protected mode)
\* or tested in place; see test_path.  Either way the test folder holds the
\* *.class files of the target, if it has any.
PrepareTest ==
    /\ pc = "prepare_test"
    /\ repo' = NoRepo
    /\ \E compiled_before \in SUBSET {Stale} : classes' = compiled_before
    /\ pc' = "io"
    /\ UNCHANGED <<specs, idx, child, result, out, exitcode, protected, cwd,
                   harnessvars>>

unlink_none(folder_classes, full_compilation) == folder_classes

\* run_javac before it calls javac: with full_compilation every *.class of
\* the folder is unlinked; what is left of them
unlink_classes(folder_classes, full_compilation) ==
    IF full_compilation THEN {} ELSE folder_classes

\* the *.class files of the folder after javac: a compilation that returns
\* 0 has written its own
javac_classes(at_start, id, returncode) ==
    at_start \cup (IF returncode = 0 THEN {id} ELSE {})

\* perform_io_tests: an item whose key starts with '_' is passed over
IoMetadata ==
    /\ pc = "io"
    /\ idx <= Len(specs)
    /\ IsMetadata(testid)
    /\ idx' = idx + 1
    /\ UNCHANGED <<specs, pc, child, result, out, exitcode, protected, cwd, repo,
                   classes, harnessvars>>

\* run_io_tests, first half: get_main_program and run_javac.  The specs
\* must name the main class; the compiler returns 0 or not.
IoCompile ==
    /\ pc = "io"
    /\ idx <= Len(specs)
    /\ ~IsMetadata(testid)
    /\ child' = NoChild
    /\ result' = NoResult
    /\ IF Get(specs, K_mainclass, PyNone).t = "none"
       THEN /\ out' = Append(out, Ev("MSG_SPECS_INCORRECT", testid, <<>>))
            /\ pc' = "exit"
            /\ exitcode' = <<1>>
            /\ UNCHANGED <<cwd, classes>>
       ELSE /\ cwd' = run_command_cwd(cwd, test_path, FALSE)
            /\ \E returncode \in {0, 1} :
                 LET at_start == unlink_classes(classes, TRUE)
                 IN  /\ classes' = javac_classes(at_start, testid, returncode)
                     /\ IF CompileFailed(returncode)
                        THEN /\ out' = out \o << Ev("javac", testid, at_start),
                                                 Ev("run_javac", testid, <<returncode>>),
                                                 Ev("MSG_COMPILATION_ERROR", testid, <<>>) >>
                             /\ pc' = "exit"
                             /\ exitcode' = <<1>>
                        ELSE /\ out' = out \o << Ev("javac", testid, at_start),
                                                 Ev("run_javac", testid, <<returncode>>) >>
                             /\ pc' = "run"
                             /\ UNCHANGED exitcode
    /\ UNCHANGED <<specs, idx, protected, repo, harnessvars>>

\* run_io_tests, second half: run_java on the compiled target
IoRun ==
    /\ pc = "run"
    /\ \E c \in ChildBehaviours :
          /\ child' = c
          /\ result' = run_java(c)
          /\ cwd' = run_command_cwd(cwd, test_path, c.timed_out)
          /\ out' = Append(out, Ev("run_java", testid, <<run_java(c).returncode>>))
    /\ pc' = "compare"
    /\ UNCHANGED <<specs, idx, exitcode, protected, repo, classes, harnessvars>>

\* what the handler of __main__ does with an exception before it exits
\* through print_error_and_exit: a dump file in protected mode, the
\* traceback on the terminal otherwise
InternalError(id) ==
    << Ev(IF protected THEN "__prgtest_dump.dat" ELSE "traceback", id, <<>>),
       Ev("MSG_INTERNAL_ERROR", id, <<>>) >>

\* compare_io_result on the result of the case.  An exception that leaves
\* it reaches the handler of __main__, which exits through
\* print_error_and_exit.
IoCompare ==
    /\ pc = "compare"
    /\ LET r == compare_io_result(specs, testid, result)
       IN  /\ specs' = r.specs
           /\ IF r.raised
              THEN /\ out' = out \o r.log \o InternalError(testid)
                   /\ pc' = "exit"
                   /\ exitcode' = <<1>>
                   /\ UNCHANGED idx
              ELSE IF r.exits
              THEN /\ out' = out \o r.log
                   /\ pc' = "exit"
                   /\ exitcode' = <<FailureExitCode(result.returncode)>>
                   /\ UNCHANGED idx
              ELSE /\ out' = out \o r.log
                   /\ pc' = "io"
                   /\ idx' = idx + 1
                   /\ UNCHANGED exitcode
    /\ UNCHANGED <<child, result, protected, cwd, repo, classes, harnessvars>>

\* perform_io_tests returns when the items are used up
IoEnd ==
    /\ pc = "io"
    /\ idx > Len(specs)
    /\ pc' = "junit"
    /\ UNCHANGED <<specs, idx, child, result, out, exitcode, protected, cwd, repo,
                   classes, harnessvars>>

\* perform_junit_tests up to the compilation of the suite; without a suite
\* run prints MSG_ALL_TEST_PASSED and the process ends with code 0
JUnitCompile ==
    /\ pc = "junit"
    /\ child' = NoChild
    /\ result' = NoResult
    /\ \E has_junit_test \in BOOLEAN :
          IF ~has_junit_test
          THEN /\ out' = Append(out, Ev("MSG_ALL_TEST_PASSED", <<>>, <<>>))
               /\ pc' = "exit"
               /\ exitcode' = <<0>>
               /\ UNCHANGED <<cwd, classes>>
          ELSE /\ cwd' = run_command_cwd(cwd, test_path, FALSE)
               /\ \E returncode \in {0, 1} :
                    LET at_start == unlink_classes(classes, TRUE)
                    IN  /\ classes' = javac_classes(at_start, JUnit, returncode)
                        /\ IF CompileFailed(returncode)
                           THEN /\ out' = out \o << Ev("javac", JUnit, at_start),
                                                    Ev("run_javac", JUnit, <<returncode>>),
                                                    Ev("MSG_COMPILATION_JUNIT_ERROR", JUnit, <<>>) >>
                                /\ pc' = "exit"
                                /\ exitcode' = <<1>>
                           ELSE /\ out' = out \o << Ev("javac", JUnit, at_start),
                                                    Ev("run_javac", JUnit, <<returncode>>) >>
                                /\ pc' = "junit_run"
                                /\ UNCHANGED exitcode
    /\ UNCHANGED <<specs, idx, protected, repo, harnessvars>>

\* run_junit_tests' run_java, compare_junit_result, and the end of run
JUnitRun ==
    /\ pc = "junit_run"
    /\ \E c \in ChildBehaviours :
          /\ child' = c
          /\ result' = run_java(c)
          /\ cwd' = run_command_cwd(cwd, test_path, c.timed_out)
          /\ IF run_java(c).returncode = 0
             THEN /\ out' = out \o << Ev("run_java", JUnit, <<0>>),
                                      Ev("show_test_passed", JUnit, <<>>),
                                      Ev("MSG_ALL_TEST_PASSED", <<>>, <<>>) >>
                  /\ exitcode' = <<0>>
             ELSE /\ out' = out \o << Ev("run_java", JUnit, <<run_java(c).returncode>>),
                                      Ev("show_test_failed", JUnit, <<>>),
                                      Ev("show_found_junit_error", JUnit, <<>>) >>
                  /\ exitcode' = <<FailureExitCode(run_java(c).returncode)>>
    /\ pc' = "exit"
    /\ UNCHANGED <<specs, idx, protected, repo, classes, harnessvars>>

Next ==
    \/ CheckNontestable
    \/ CheckCompiled
    \/ CheckGit
    \/ PrepareTest
    \/ IoMetadata
    \/ IoCompile
    \/ IoRun
    \/ IoCompare
    \/ IoEnd
    \/ JUnitCompile
    \/ JUnitRun

Spec == Init /\ [][Next]_vars

--------------------------------------------------------------------------
(* The comparator on its own: every pair of lists, both policies           *)

InitCompare ==
    /\ RunIdle
    /\ args \in [expected : LineLists, found : LineLists,
                 ignore_blank_lines : BOOLEAN]
    /\ ret = None
    /\ called = FALSE
    /\ via = ""
    /\ shown = NoShown

CallCompareLines ==
    /\ ~called
    /\ LET r == compare_lines_at(args.expected, args.found, args.ignore_blank_lines)
       IN  /\ ret' = r.val
           /\ via' = r.at
    /\ called' = TRUE
    /\ UNCHANGED <<args, shown, runvars>>

\* compare_io_result hands a pair compare_lines returned to show_discrepancy,
\* which ends in show_difference
CallShowDifference ==
    /\ called
    /\ ret # None
    /\ shown = NoShown
    /\ shown' = show_difference(args.expected, args.found, ret[1], ret[2])
    /\ UNCHANGED <<args, ret, called, via, runvars>>

NextCompare ==
    \/ CallCompareLines
    \/ CallShowDifference

SpecCompare == InitCompare /\ [][NextCompare]_vars

--------------------------------------------------------------------------
(* The translation on its own: every well-formed table of the alphabets    *)
(* below, every output of at most two lines                                *)

\* longest element of a translation table, and longest line, the harness
\* hands to prepare_output
MaxTrLen == 2

\* the characters of the first and of the second element of a table, and of
\* the lines: the elements share a, so that a table may produce a character
\* it translates
FromChars == {"a", "b"}
ToChars == {"a", "x"}
TrChars == FromChars \cup ToChars

\* all non-empty strings of at most n characters of S
StringsUpTo(S, n) == UNION {[1..k -> S] : k \in 1..n}

\* the values of _tr prepare_output accepts: two non-empty strings of the
\* same length
WellFormedTables ==
    {tr \in StringsUpTo(FromChars, MaxTrLen) \X StringsUpTo(ToChars, MaxTrLen) :
        ~IllDefinedTr(tr)}

TrLines == {Blank} \cup StringsUpTo(TrChars, MaxTrLen)

TrOutputs ==
    {<<>>} \cup {<<l>> : l \in TrLines} \cup {<<l, m>> : l, m \in TrLines}

\* the specs that configure a translation table and nothing else
SpecsWithTr(tr) == << [key |-> K_tr, val |-> PyList(tr)] >>

InitTranslate ==
    /\ RunIdle
    /\ args \in [translatespecs : WellFormedTables, output : TrOutputs]
    /\ ret = None
    /\ called = FALSE
    /\ via = ""
    /\ shown = NoShown

\* prepare_output on the output, and once more on what it returned
CallPrepareOutput ==
    /\ ~called
    /\ LET s == SpecsWithTr(args.translatespecs)
           once == prepare_output(s, args.output)
       IN  ret' = [once |-> once, twice |-> prepare_output(s, once.output)]
    /\ called' = TRUE
    /\ UNCHANGED <<args, via, shown, runvars>>

NextTranslate == CallPrepareOutput

SpecTranslate == InitTranslate /\ [][NextTranslate]_vars

--------------------------------------------------------------------------
(* Claims about the comparator                                             *)

\* the lines of a list that are not empty, in order
NonBlank(lines) == SelectSeq(lines, LAMBDA l : l # Blank)

\* the shorter of two lengths
MinLen(a, b) == IF Len(a) <= Len(b) THEN Len(a) ELSE Len(b)

\* the smallest 0-based index at which a and b differ, or the length of the
\* shorter one when it is a prefix of the other
FirstDifference(a, b) ==
    CHOOSE k \in 0..MinLen(a, b) :
        /\ \A m \in 1..k : a[m] = b[m]
        /\ k = MinLen(a, b) \/ a[k + 1] # b[k + 1]

\* C1: with ignore_blank_lines, compare_lines returns None exactly when the
\* non-empty lines of expected equal, in order, the non-empty lines of found.
C1_BlankIndependentEquality ==
    (called /\ args.ignore_blank_lines) =>
        ((ret = None) <=> (NonBlank(args.expected) = NonBlank(args.found)))

\* C1 witness: Equal although a blank expected line has no blank partner.
C1_Witness ==
    /\ called
    /\ args.ignore_blank_lines
    /\ ret = None
    /\ Len(args.expected) # Len(args.found)
    /\ \E k \in 1..Len(args.expected) : args.expected[k] = Blank
    /\ \A k \in 1..Len(args.found) : args.found[k] # Blank
    /\ Len(args.found) >= 2

\* C2: without ignore_blank_lines, compare_lines returns None exactly when
\* the lists are identical, and otherwise (k, k) with k the first index at
\* which they differ (the length of the shorter one for a proper prefix).
C2_ExactComparison ==
    (called /\ ~args.ignore_blank_lines) =>
        /\ (ret = None) <=> (args.expected = args.found)
        /\ (args.expected # args.found) =>
              LET k == FirstDifference(args.expected, args.found)
              IN  ret = <<k, k>>

\* C2 witness: ["a", "", "b"] against ["a", "b"] diverges at (1, 1).
C2_Witness ==
    /\ called
    /\ ~args.ignore_blank_lines
    /\ args.expected = <<(<<"a">>), Blank, (<<"b">>)>>
    /\ args.found = <<(<<"a">>), (<<"b">>)>>
    /\ ret = <<1, 1>>

\* C3: compare_lines(x, x, b) returns None for every list x and both b.
C3_Reflexive ==
    (called /\ args.expected = args.found) => ret = None

\* C3 witness: a list with blank and non-blank lines compared with itself,
\* blank lines not ignored.
C3_Witness ==
    /\ called
    /\ args.expected = args.found
    /\ ~args.ignore_blank_lines
    /\ \E k \in 1..Len(args.expected) : args.expected[k] = Blank
    /\ \E k \in 1..Len(args.expected) : args.expected[k] # Blank
    /\ ret = None

--------------------------------------------------------------------------
(* Claims about the run                                                    *)

\* the places of `out` where ev was recorded for test id
Places(ev, id) == {p \in 1..Len(out) : out[p].ev = ev /\ out[p].id = id}

Has(ev, id) == Places(ev, id) # {}

\* the keys of the specs that are test cases, by the rule of the spec
TestKeys == {specs[n].key : n \in {m \in 1..Len(specs) : specs[m].key[1] # "_"}}

\* every id a case-level event can carry
CaseIds == {specs[n].key : n \in 1..Len(specs)}

\* compare_io_result has been called for the case and has returned, exited
\* or raised
Handled(id) == Has("run_java", id) /\ ~(pc = "compare" /\ testid = id)

\* the return code run_java gave for the case
ReturnCodeOf(id) == out[CHOOSE p \in Places("run_java", id) : TRUE].data[1]

\* what compare_lines returned for the case
ComparisonOf(id) == out[CHOOSE p \in Places("compare_lines", id) : TRUE].data

Compared(id) == Has("compare_lines", id)
Pass(id) == Has("show_test_passed", id)
Failed(id) == Has("show_test_failed", id)
Mismatch(id) == Failed(id) /\ Has("show_discrepancy", id)
Timeout(id) == Failed(id) /\ Has("MSG_EXERCISE_NEVER_ENDS", id)
Crash(id) == Failed(id) /\ Has("MSG_EXERCISE_BREAKS", id)

\* how many of the four outcomes the case was reported with
Outcomes(id) ==
    Cardinality({o \in {"Pass", "Mismatch", "Timeout", "Crash"} :
        \/ o = "Pass" /\ Pass(id)
        \/ o = "Mismatch" /\ Mismatch(id)
        \/ o = "Timeout" /\ Timeout(id)
        \/ o = "Crash" /\ Crash(id)})

\* C4: the outcome reported for an executed case is decided by the return
\* code and the comparison: 0 and Equal is Pass, 0 and Diverged is Mismatch,
\* 124 is Timeout and any other code is Crash with the captured stderr
\* shown, the last two without a comparison; no case has two outcomes.
C4_OutcomeByExitCodeAndComparison ==
    \A id \in CaseIds : Handled(id) =>
        LET rc == ReturnCodeOf(id)
        IN  /\ Outcomes(id) <= 1
            /\ (rc = 0 /\ Compared(id) /\ ComparisonOf(id) = None)
                  => Pass(id)
            /\ (rc = 0 /\ Compared(id) /\ ComparisonOf(id) # None)
                  => /\ Mismatch(id)
                     /\ \E p \in Places("show_discrepancy", id) :
                           out[p].data = ComparisonOf(id)
            /\ (rc = 124) => (Timeout(id) /\ ~Compared(id))
            /\ (rc # 0 /\ rc # 124)
                  => /\ Crash(id)
                     /\ ~Compared(id)
                     /\ \E p \in Places("show_found_stderr", id) :
                           out[p].data = child.stderr

\* C4 witness: one case passed on an equal comparison, the next one
\* returned 124 by itself with output captured and was reported Timeout.
C4_Witness ==
    \E id1, id2 \in CaseIds :
        /\ Pass(id1) /\ Compared(id1) /\ ComparisonOf(id1) = None
        /\ Handled(id2) /\ ReturnCodeOf(id2) = 124 /\ Timeout(id2)
        /\ ~child.timed_out
        /\ result.stdout # <<>>

\* the events that compile, run or report a case or the JUnit suite
IsCaseStep(e) ==
    e.ev \in {"run_javac", "run_java", "compare_lines",
              "show_test_passed", "show_test_failed"}

\* C5: once a case is reported as failed the run is over with code 1, and
\* nothing was compiled, run or reported after it, for another case or for
\* the JUnit suite; at most one failure is reported in a run.
C5_HaltOnFirstFailure ==
    /\ \A p \in 1..Len(out) : out[p].ev = "show_test_failed" =>
          /\ pc = "exit"
          /\ exitcode = <<1>>
          /\ \A q \in (p + 1)..Len(out) :
                out[q].id = out[p].id /\ ~IsCaseStep(out[q])
    /\ Cardinality({p \in 1..Len(out) : out[p].ev = "show_test_failed"}) <= 1

\* C5 witness: the first declared case failed and a case declared after it
\* was never compiled.
C5_Witness ==
    \E m, n \in 1..Len(specs) :
        /\ m < n
        /\ specs[m].key \in TestKeys
        /\ specs[n].key \in TestKeys
        /\ Mismatch(specs[m].key)
        /\ ~Has("run_javac", specs[n].key)
        /\ pc = "exit"

\* the ids of the events named ev, in the order they were recorded, the
\* JUnit suite left out
RECURSIVE IdsOf(_, _)
IdsOf(log, ev) ==
    IF log = <<>> THEN <<>>
    ELSE (IF Head(log).ev = ev /\ Head(log).id # JUnit
          THEN <<Head(log).id>> ELSE <<>>) \o IdsOf(Tail(log), ev)

\* the test ids of a specs file in declaration order, metadata keys removed
RECURSIVE DeclaredTests(_)
DeclaredTests(items) ==
    IF items = <<>> THEN <<>>
    ELSE (IF Head(items).key[1] = "_" THEN <<>>
          ELSE <<Head(items).key>>) \o DeclaredTests(Tail(items))

IsPrefix(a, b) == Len(a) <= Len(b) /\ SubSeq(b, 1, Len(a)) = a

\* C6: the cases compiled, run and reported are, in that order, a prefix of
\* the declared keys that do not start with '_'; no metadata key is ever
\* compiled, run or reported, and a case is compiled only after the case
\* before it was reported as passed.
C6_DeclarationOrderPrefix ==
    LET declared == DeclaredTests(specs)
        compiled == IdsOf(out, "run_javac")
    IN  /\ IsPrefix(compiled, declared)
        /\ IsPrefix(IdsOf(out, "run_java"), compiled)
        /\ \A p \in 1..Len(out) :
              IsCaseStep(out[p]) => out[p].id \in TestKeys \cup {JUnit}
        /\ \A k \in 2..Len(compiled) :
              \E p \in Places("show_test_passed", compiled[k - 1]) :
                 \A q \in Places("run_javac", compiled[k]) : p < q
        /\ \A id \in TestKeys :
              Cardinality(Places("run_javac", id)) <= 1

\* C6 witness: t2 is declared before a metadata key and t1 after it, and
\* both were run, t2 first.
C6_Witness ==
    /\ Len(specs) = 3
    /\ specs[1].key = <<"t", "2">>
    /\ specs[2].key[1] = "_"
    /\ specs[3].key = <<"t", "1">>
    /\ IdsOf(out, "run_java") = << <<"t", "2">>, <<"t", "1">> >>

\* C7 as claimed: when a compilation of the target fails, the error is
\* reported once and no case of the run was executed or reported, before
\* or after it.
C7_NoCaseInARunWithCompileError ==
    \A p \in 1..Len(out) : out[p].ev = "MSG_COMPILATION_ERROR" =>
        /\ Cardinality({q \in 1..Len(out) :
                            out[q].ev = "MSG_COMPILATION_ERROR"}) = 1
        /\ \A q \in 1..Len(out) :
              out[q].ev \notin {"run_java", "show_test_passed",
                                "show_test_failed"}

\* C7 amended: a compilation that returns non-zero is the last thing the
\* run does: the error is reported once, right after it, the run exits
\* with code 1, the case it was compiled for is neither run nor reported,
\* and so is every case declared after it; the cases before it were each
\* reported as passed.
C7_CompileErrorEndsTheRun ==
    \A p \in 1..Len(out) :
        (out[p].ev = "run_javac" /\ out[p].data # <<0>>) =>
            /\ Len(out) = p + 1
            /\ out[p + 1].ev \in {"MSG_COMPILATION_ERROR",
                                  "MSG_COMPILATION_JUNIT_ERROR"}
            /\ out[p + 1].id = out[p].id
            /\ pc = "exit"
            /\ exitcode = <<1>>
            /\ ~Has("run_java", out[p].id)
            /\ \A q \in 1..(p - 1) : out[q].ev # "show_test_failed"

\* C7 witness: the compilation for the second case failed after the first
\* case had passed.
C7_Witness ==
    \E p \in 1..Len(out) :
        /\ out[p].ev = "MSG_COMPILATION_ERROR"
        /\ \E q \in 1..(p - 1) : out[q].ev = "show_test_passed"

\* C8: a child that exceeds its timeout makes run_java return the result
\* (stdout [], stderr [], returncode 124), whatever the child had written,
\* and no exception reaches the caller.
C8_TimeoutSentinel ==
    child.timed_out =>
        /\ result = SubprocessResult(<<>>, <<>>, 124)
        /\ pc \in {"compare", "exit"}
        /\ \A p \in 1..Len(out) : out[p].ev # "MSG_INTERNAL_ERROR"

\* C8 witness: the child of an I/O case was killed at the timeout after it
\* had written a line.
C8_Witness ==
    /\ child.timed_out
    /\ child.stdout # <<>>
    /\ pc = "compare"

\* the expected output the specs declare for a case (None when absent)
ExpectedOf(id) == Get(specs, id, PyNone).v.stdout

\* C9: a case whose process returns 0 and that declares no expected output
\* is reported as passed, and compare_lines is not called for it.
C9_NoExpectedOutputPasses ==
    \A id \in TestKeys :
        (Handled(id) /\ ReturnCodeOf(id) = 0 /\ ExpectedOf(id).t = "none")
            => /\ Pass(id)
               /\ ~Failed(id)
               /\ ~Compared(id)
               /\ ~Has("MSG_INTERNAL_ERROR", id)

\* C9 witness: such a case passed although the program printed two lines.
C9_Witness ==
    \E id \in TestKeys :
        /\ Pass(id)
        /\ ExpectedOf(id).t = "none"
        /\ pc = "io"
        /\ Len(result.stdout) = 2

\* a translation table that is not a pair, has an empty first element, or
\* two elements of unequal length
Malformed(tr) ==
    \/ Len(tr) # 2
    \/ Len(tr) = 2 /\ (Len(tr[1]) = 0 \/ Len(tr[1]) # Len(tr[2]))

MalformedTrConfigured ==
    /\ Get(specs, K_tr, PyNone).t # "none"
    /\ Malformed(Get(specs, K_tr, PyNone).v)

\* C10 as claimed: with a malformed _tr configured, every case whose
\* process returns 0 ends the run with the error and is reported neither
\* as passed nor as failed, whether or not it declares an expected output.
C10_MalformedTrAlwaysFails ==
    \A id \in TestKeys :
        (Handled(id) /\ ReturnCodeOf(id) = 0 /\ MalformedTrConfigured)
            => /\ Has("MSG_INTERNAL_ERROR", id)
               /\ ~Pass(id)
               /\ ~Failed(id)

\* C10 amended: with a malformed _tr configured, every case whose process
\* returns 0 and that declares an expected output ends the run with exit
\* code 1 through the AttributeError of prepare_output; the case is
\* reported neither as passed nor as failed and is not compared.
C10_MalformedTrFailsWhenOutputExpected ==
    \A id \in TestKeys :
        (/\ Handled(id)
         /\ ReturnCodeOf(id) = 0
         /\ MalformedTrConfigured
         /\ ExpectedOf(id).t # "none")
            => /\ Has("MSG_INTERNAL_ERROR", id)
               /\ ~Pass(id)
               /\ ~Failed(id)
               /\ ~Compared(id)
               /\ pc = "exit"
               /\ exitcode = <<1>>

\* C10 witness: a case that expects output returned 0 under a _tr whose
\* elements have unequal length, and the run ended with the error.
C10_Witness ==
    \E id \in TestKeys :
        /\ Has("MSG_INTERNAL_ERROR", id)
        /\ ExpectedOf(id).t # "none"
        /\ Get(specs, K_tr, PyNone).t # "none"
        /\ Len(Get(specs, K_tr, PyNone).v) = 2
        /\ Get(specs, K_tr, PyNone).v[1] # <<>>

--------------------------------------------------------------------------
(* Claims about the exit code of the run                                   *)

\* what the run prints or calls when it reports a failure: a compilation
\* error, a failed case or suite, incorrect specs, an internal error, or a
\* precondition of protected mode that does not hold
FailureEvents ==
    {"MSG_COMPILATION_ERROR", "MSG_COMPILATION_JUNIT_ERROR", "show_test_failed",
     "MSG_SPECS_INCORRECT", "MSG_INTERNAL_ERROR", "ERROR_NOT_COMPILED",
     "ERROR_ADD_FILES_TO_GIT", "MSG_MISSING_COMMIT"}

FailureReported == \E p \in 1..Len(out) : out[p].ev \in FailureEvents

--------------------------------------------------------------------------
(* Claims about the discrepancy section                                    *)

\* the message of show_difference that names each return of compare_lines
ShapeOf(at) ==
    CASE at = "found_tail" -> "MSG_EXERCISE_WITH_MORE_LINES_THAN_EXPECTED"
      [] at = "expected_tail" -> "MSG_EXERCISE_WITH_LESS_LINES_THAN_EXPECTED"
      [] at = "loop" -> "MSG_EXERCISE_WITH_DIFFERENT_LINES"

\* C12: for every pair compare_lines returns, show_difference prints the
\* message of the place compare_lines returned from: the unexpected extra
\* line for the tail of found, the missing line for the tail of expected,
\* the differing lines for the main loop, under both blank-line policies.
C12_ShapeNamesTheDivergence ==
    shown # NoShown => shown.msg = ShapeOf(via)

\* the same when empty lines are significant
C12_ShapeNamesTheDivergenceExact ==
    (shown # NoShown /\ ~args.ignore_blank_lines) => shown.msg = ShapeOf(via)

--------------------------------------------------------------------------
(* Claims about the working directory                                      *)

\* C13: run_command gives the working directory back on every way out of
\* it, the timeout that run_java catches included: the run starts in the
\* folder of the target, so the process is in that folder whenever no
\* command is running.
C13_WorkingDirectoryRestored == cwd = TargetDir

--------------------------------------------------------------------------
(* Claims about the translation table                                      *)

\* the characters of a string
CharsOf(str) == {str[k] : k \in 1..Len(str)}

\* C14: for a well-formed table whose second element has no character of
\* the first, translating the translated output gives the translated output
\* again, and neither application raises.
C14_TranslationIdempotent ==
    (called /\ CharsOf(args.translatespecs[2])
                   \cap CharsOf(args.translatespecs[1]) = {}) =>
        /\ ~ret.once.raised
        /\ ~ret.twice.raised
        /\ ret.twice.output = ret.once.output

\* C14 witness: a table of two characters changed both lines of an output,
\* and the second application changed nothing.
C14_Witness ==
    /\ called
    /\ CharsOf(args.translatespecs[2]) \cap CharsOf(args.translatespecs[1]) = {}
    /\ Cardinality(CharsOf(args.translatespecs[1])) = 2
    /\ Len(args.output) = 2
    /\ \A n \in 1..2 : ret.once.output[n] # args.output[n]
    /\ ret.twice.output = ret.once.output

\* C15: for a well-formed table every character of the first element is
\* replaced by one single character of the second and nothing else changes,
\* so a translated line is as long as the line it comes from.
C15_TranslationCharacterwise ==
    called =>
        /\ Len(ret.once.output) = Len(args.output)
        /\ \A n \in 1..Len(args.output) :
              /\ Len(ret.once.output[n]) = Len(args.output[n])
              /\ \A k \in 1..Len(args.output[n]) :
                    IF args.output[n][k] \in CharsOf(args.translatespecs[1])
                    THEN ret.once.output[n][k] \in CharsOf(args.translatespecs[2])
                    ELSE ret.once.output[n][k] = args.output[n][k]

\* the same for the tables of one character
C15_TranslationCharacterwiseOneChar ==
    (called /\ Len(args.translatespecs[1]) = 1) =>
        /\ Len(ret.once.output) = Len(args.output)
        /\ \A n \in 1..Len(args.output) :
              /\ Len(ret.once.output[n]) = Len(args.output[n])
              /\ \A k \in 1..Len(args.output[n]) :
                    IF args.output[n][k] \in CharsOf(args.translatespecs[1])
                    THEN ret.once.output[n][k] \in CharsOf(args.translatespecs[2])
                    ELSE ret.once.output[n][k] = args.output[n][k]

--------------------------------------------------------------------------
(* Claims about protected mode                                             *)

\* what compiles, runs or reports a case or the suite
IsTestStep(e) ==
    e.ev \in {"run_javac", "run_java", "compare_lines", "show_test_passed",
              "show_test_failed", "MSG_ALL_TEST_PASSED"}

\* check_git found untracked files in the folder of the target, or changes
\* that are not committed and cannot be autocommitted
GitPreconditionFailed ==
    /\ repo # NoRepo
    /\ repo.unstaged \/ (repo.is_dirty /\ ~repo.autocommittable)

\* C16: in protected mode nothing is compiled or run before check_git has
\* returned, and when check_git finds its precondition failed the process
\* ends with code 1 and no case or suite was compiled, run or reported.
C16_GitCheckedBeforeAnyTest ==
    protected =>
        /\ \A p \in 1..Len(out) :
              IsTestStep(out[p]) => \E q \in 1..(p - 1) : out[q].ev = "check_git"
        /\ GitPreconditionFailed =>
              /\ pc = "exit"
              /\ exitcode = <<1>>
              /\ \A p \in 1..Len(out) :
                    ~IsTestStep(out[p]) /\ out[p].ev # "check_git"

\* C16 witness: changes that are not committed and cannot be autocommitted
\* ended the run before anything was compiled.
C16_Witness ==
    /\ protected
    /\ repo # NoRepo
    /\ ~repo.unstaged
    /\ repo.is_dirty
    /\ ~repo.autocommittable
    /\ pc = "exit"
    /\ exitcode = <<1>>
    /\ out = << Ev("MSG_MISSING_COMMIT", <<>>, <<>>) >>

--------------------------------------------------------------------------
(* Claims about the configuration error                                    *)

\* the handler of __main__ for unexpected exceptions has run: it wrote the
\* dump file or the traceback and printed the internal-error message
InternalErrorPathTaken ==
    \E p \in 1..Len(out) :
        out[p].ev \in {"__prgtest_dump.dat", "traceback", "MSG_INTERNAL_ERROR"}

\* C17: a malformed translation table never takes the run through the
\* catch-and-log handler of __main__ (no dump file, no internal-error
\* message): the error is a configuration error of its own.
C17_MalformedTrIsNotAnInternalError ==
    MalformedTrConfigured => ~InternalErrorPathTaken

--------------------------------------------------------------------------
(* Claims about the place of the first divergence                          *)

\* the lines of a list that compare_lines does not skip under the policy
NonSkipped(lines, ignore_blank_lines) ==
    IF ignore_blank_lines THEN NonBlank(lines) ELSE lines

\* C18: when compare_lines returns (i, j) from its main loop, the lines of
\* expected before i and the lines of found before j that are not skipped
\* are the same in the same order, the lines at i and j differ, and with
\* ignore_blank_lines neither of the two is empty.
C18_FirstDivergence ==
    (called /\ via = "loop") =>
        /\ ret # None
        /\ ret[1] < Len(args.expected)
        /\ ret[2] < Len(args.found)
        /\ NonSkipped(SubSeq(args.expected, 1, ret[1]), args.ignore_blank_lines)
             = NonSkipped(SubSeq(args.found, 1, ret[2]), args.ignore_blank_lines)
        /\ args.expected[ret[1] + 1] # args.found[ret[2] + 1]
        /\ args.ignore_blank_lines =>
              /\ args.expected[ret[1] + 1] # Blank
              /\ args.found[ret[2] + 1] # Blank

\* C18 witness: the main loop returned a pair of different indexes, after
\* skipping an empty line and matching a line before the divergence.
C18_Witness ==
    /\ called
    /\ via = "loop"
    /\ args.ignore_blank_lines
    /\ ret[1] # ret[2]
    /\ ret[1] >= 1
    /\ ret[2] >= 1
    /\ NonBlank(SubSeq(args.expected, 1, ret[1])) # <<>>

\* the 0-based index of the n-th line of a list that is not skipped
NthNonSkipped(lines, ignore_blank_lines, n) ==
    CHOOSE k \in 0..(Len(lines) - 1) :
        /\ ~(ignore_blank_lines /\ lines[k + 1] = Blank)
        /\ Len(NonSkipped(SubSeq(lines, 1, k), ignore_blank_lines)) = n - 1

\* C19: when the lines of expected that are not skipped are all matched and
\* found has one more, compare_lines returns (k, k) with k the index in
\* found of the first such line; the same with expected and found
\* exchanged; and it returns None only when neither list has a line left.
C19_TailRule ==
    called =>
        LET e == NonSkipped(args.expected, args.ignore_blank_lines)
            f == NonSkipped(args.found, args.ignore_blank_lines)
        IN  /\ (IsPrefix(e, f) /\ e # f) =>
                  LET k == NthNonSkipped(args.found, args.ignore_blank_lines,
                                         Len(e) + 1)
                  IN  ret = <<k, k>> /\ via = "found_tail"
            /\ (IsPrefix(f, e) /\ e # f) =>
                  LET k == NthNonSkipped(args.expected, args.ignore_blank_lines,
                                         Len(f) + 1)
                  IN  ret = <<k, k>> /\ via = "expected_tail"
            /\ (ret = None) => (e = f /\ via = "end")
            /\ (via = "found_tail") => (IsPrefix(e, f) /\ e # f)
            /\ (via = "expected_tail") => (IsPrefix(f, e) /\ e # f)

\* C19 witness: found has an extra line after empty lines that were
\* skipped, at an index that is inside expected.
C19_Witness ==
    /\ called
    /\ via = "found_tail"
    /\ args.ignore_blank_lines
    /\ ret[1] >= 1
    /\ ret[1] < Len(args.expected)
    /\ args.found[ret[1]] = Blank

--------------------------------------------------------------------------
(* Claims about the way to MSG_ALL_TEST_PASSED                             *)

AllPassed == Has("MSG_ALL_TEST_PASSED", <<>>)

\* run_javac has been called for the case or suite and returned 0
CompiledFor(id) == \E p \in Places("run_javac", id) : out[p].data = <<0>>

\* C20 as claimed: every run that prints MSG_ALL_TEST_PASSED has compiled
\* the target successfully at least once, whatever the specs declare.
C20_AllPassedWentThroughCompiling ==
    AllPassed => \E id \in CaseIds \cup {JUnit} : CompiledFor(id)

\* C20: a run that prints MSG_ALL_TEST_PASSED has compiled successfully for
\* every test case the specs declare and for the JUnit suite if it ran one;
\* a run whose specs declare a test case has therefore compiled at least
\* once, and the message is the last thing of the run.
C20_AllPassedCompiledEveryCase ==
    AllPassed =>
        /\ \A id \in TestKeys : CompiledFor(id) /\ Pass(id)
        /\ Has("run_java", JUnit) => CompiledFor(JUnit)
        /\ out[Len(out)].ev = "MSG_ALL_TEST_PASSED"
        /\ pc = "exit"
        /\ exitcode = <<0>>

\* C20 witness: two declared cases and the suite were compiled and passed.
C20_Witness ==
    /\ AllPassed
    /\ Cardinality(TestKeys) = 2
    /\ \A id \in TestKeys : CompiledFor(id)
    /\ CompiledFor(JUnit)

--------------------------------------------------------------------------
(* Claims about the compiled files                                         *)

\* the places of the log where javac was started
JavacPlaces == {p \in 1..Len(out) : out[p].ev = "javac"}

--------------------------------------------------------------------------
(* The standard input of a case on its own: perform_io_tests normalizes    *)
(* the entry, run_io_tests builds the text                                 *)

\* most lines of a stdin entry the harness draws
MaxStdinLines == 3

\* the newline character
NL == "\n"

\* the lines a stdin entry is made of
StdinLines == {Blank, <<"a">>, <<"b">>, <<"a", "b">>}

\* the stdin entries of a case: null, one line given as a scalar, or a list
StdinChoices ==
    {PyNone} \cup {PyStr(l) : l \in StdinLines}
    \cup {PyList(ls) : ls \in SeqsUpTo(StdinLines, MaxStdinLines)}

\* the specs of a case, without and with the key stdin
TestSpecsChoices ==
    {[stdout |-> PyNone]}
    \cup {[stdout |-> PyNone, stdin |-> e] : e \in StdinChoices}

\* str(item): the items of the model are strings, which str gives back
str(item) == item

RECURSIVE join(_, _)
\* sep.join(items)
join(sep, items) ==
    IF items = <<>> THEN <<>>
    ELSE IF Len(items) = 1 THEN items[1]
    ELSE items[1] \o sep \o join(sep, Tail(items))

stdin_text_joined(stdin) ==
    IF stdin.t = "none" THEN <<>>
    ELSE join(<<NL>>, [n \in 1..Len(stdin.v) |-> str(stdin.v[n])])

\* run_io_tests:
\* `'' if stdin is None else '\n'.join(str(item) for item in stdin) + '\n'`
stdin_text(stdin) ==
    IF stdin.t = "none" THEN <<>>
    ELSE join(<<NL>>, [n \in 1..Len(stdin.v) |-> str(stdin.v[n])]) \o <<NL>>

\* perform_io_tests: `if 'stdin' in testspecs:` the entry is normalized
normalize_stdin(testspecs) ==
    IF "stdin" \in DOMAIN testspecs
    THEN [testspecs EXCEPT !.stdin = normalize_entry_spec(@)]
    ELSE testspecs

\* testspecs.get('stdin')
get_stdin(testspecs) ==
    IF "stdin" \in DOMAIN testspecs THEN testspecs.stdin ELSE PyNone

InitStdin ==
    /\ RunIdle
    /\ args \in TestSpecsChoices
    /\ ret = None
    /\ called = FALSE
    /\ via = ""
    /\ shown = NoShown

\* the case as far as the call of run_java: the specs after perform_io_tests
\* and the text run_io_tests hands over as standard input
CallRunIoTests ==
    /\ ~called
    /\ LET testspecs == normalize_stdin(args)
       IN  ret' = [testspecs |-> testspecs,
                   stdin |-> stdin_text(get_stdin(testspecs))]
    /\ called' = TRUE
    /\ UNCHANGED <<args, via, shown, runvars>>

NextStdin == CallRunIoTests

SpecStdin == InitStdin /\ [][NextStdin]_vars

--------------------------------------------------------------------------
(* Claims about the standard input                                         *)

\* the case declares a stdin: the key is there and its value is not null
DeclaresStdin(testspecs) ==
    "stdin" \in DOMAIN testspecs /\ testspecs.stdin.t # "none"

\* the lines of a declared stdin, a scalar being one line
StdinLinesOf(testspecs) ==
    IF testspecs.stdin.t = "list" THEN testspecs.stdin.v
    ELSE <<testspecs.stdin.v>>

RECURSIVE Terminated(_)
\* every line followed by a newline, built from the last line backwards
Terminated(lines) ==
    IF lines = <<>> THEN <<>>
    ELSE Terminated(SubSeq(lines, 1, Len(lines) - 1))
         \o lines[Len(lines)] \o <<NL>>

\* C22: the text handed to the child as standard input is the lines of the
\* stdin of the case (a scalar being one line) joined by newlines with one
\* newline after them, that is every line followed by a newline and a lone
\* newline for an empty list; it is empty exactly when the case declares no
\* stdin.
C22_StdinText ==
    called =>
        /\ (ret.stdin = <<>>) <=> ~DeclaresStdin(args)
        /\ DeclaresStdin(args) =>
              ret.stdin = (IF StdinLinesOf(args) = <<>> THEN <<NL>>
                           ELSE Terminated(StdinLinesOf(args)))

\* C22 witness: a scalar stdin was put in a list and handed over as one line
\* with its newline.
C22_Witness ==
    /\ called
    /\ "stdin" \in DOMAIN args
    /\ args.stdin = PyStr(<<"a", "b">>)
    /\ ret.testspecs.stdin = PyList(<< <<"a", "b">> >>)
    /\ ret.stdin = <<"a", "b", NL>>

--------------------------------------------------------------------------
(* Claims about the indexes of the discrepancy report                      *)

\* the list show_difference takes a line from
ListOf(of) == IF of = "expected" THEN args.expected ELSE args.found

\* C23: for every pair compare_lines returns, under both policies, every
\* line show_difference prints is taken at an index inside its list:
\* stdout[nr_found] only with nr_found < len(stdout), expected[nr_expected]
\* only with nr_expected < len(expected).
C23_IndexSafety ==
    shown # NoShown =>
        \A n \in 1..Len(shown.lines) :
            /\ shown.lines[n].nr >= 0
            /\ shown.lines[n].nr < Len(ListOf(shown.lines[n].of))

\* C23 witness: the index returned for expected is past its end, and
\* show_difference printed the line of found only.
C23_Witness ==
    /\ shown # NoShown
    /\ ret[1] >= Len(args.expected)
    /\ shown.lines = << [of |-> "found", nr |-> ret[2]] >>
    /\ Len(args.expected) >= 1

--------------------------------------------------------------------------
(* Claims about the timeout report                                         *)

\* C24: a case is reported as a timeout only when its child was still
\* running at the time limit; a child that finished by itself, with
\* whatever return code, is never reported as a timeout.
C24_TimeoutOnlyWhenTimedOut ==
    \A id \in TestKeys : Timeout(id) => child.timed_out

--------------------------------------------------------------------------
(* Claims about the lines of the discrepancy report                        *)

\* C25: what a mismatch report shows is what was compared: the listing of
\* the found output is the output with the translation table applied, and
\* when show_difference prints that the lines differ, the expected line and
\* the found line it prints are different strings.
C25_ShownLinesAreTheComparedOnes ==
    \A p \in 1..Len(out) :
        /\ out[p].ev = "show_found_output" =>
              out[p].data = prepare_output(specs, result.stdout).output
        /\ (out[p].ev = "show_difference"
              /\ out[p].data.msg = "MSG_EXERCISE_WITH_DIFFERENT_LINES") =>
              out[p].data.lines[1].text # out[p].data.lines[2].text

\* the second part alone: the two lines printed as differing differ
C25_DifferingLinesDiffer ==
    \A p \in 1..Len(out) :
        (out[p].ev = "show_difference"
           /\ out[p].data.msg = "MSG_EXERCISE_WITH_DIFFERENT_LINES") =>
           out[p].data.lines[1].text # out[p].data.lines[2].text

\* the same in the runs without a translation table
C25_ShownLinesWithoutTr ==
    Get(specs, K_tr, PyNone).t = "none" => C25_ShownLinesAreTheComparedOnes

--------------------------------------------------------------------------
(* Claims about the commits                                                *)

\* check_git has just returned to run, in protected mode
CheckGitReturned == protected /\ pc = "prepare_test" /\ repo # NoRepo

\* C26: in protected mode check_git returns to run only with every change
\* committed: the repository was clean, or it was dirty and the autocommit
\* was made.
C26_ReturnsOnlyWhenCommitted ==
    CheckGitReturned => (~repo.is_dirty \/ repo.committed)

\* what does hold: it returns with a clean repository or with an
\* autocommittable one, committed or not
C26_ReturnsWhenCleanOrAutocommittable ==
    CheckGitReturned =>
        /\ ~repo.unstaged
        /\ ~repo.is_dirty \/ repo.autocommittable

==========================================================================
